---- MODULE Spec2Model ----
(***************************************************************************)
(* Startup of minifed (src/main.go): mustParseConfig builds the entity     *)
(* graph from the config's edges, main attaches a federation entity and a  *)
(* mux pattern to every node, writes the subordinate records, and listens. *)
(*                                                                         *)
(* Strings of the program that are parsed (edges, identifiers) are         *)
(* sequences of tokens; pointers to Entity are the entity's name, the key  *)
(* under which the node lives in the entityNodes map.                      *)
(***************************************************************************)
EXTENDS Naturals, Integers, Sequences, FiniteSets, TLC

VARIABLES cfgEntities, cfgEdges, pc, err, index, entityNodes, keyLog, mux,
          toVisit, writes, served

vars == <<cfgEntities, cfgEdges, pc, err, index, entityNodes, keyLog, mux,
          toVisit, writes, served>>

\* Largest number of edges in a generated config.
MaxEdges == 3

----------------------------------------------------------------------------
\* Entity kinds (src/main.go:36-43).
EntityKindLeaf == "leaf"
EntityKindTrustAnchor == "trust-anchor"
EntityKindIntermediate == "intermediate"

\* storage.StatusActive, the status written at src/main.go:228.
StatusActive == "active"

----------------------------------------------------------------------------
\* Token strings.
Arrow == "->"
Space == " "

\* strings.Split(s, sep) for a one-token separator: the pieces between the
\* occurrences of sep.
RECURSIVE SplitFrom(_, _, _, _)
SplitFrom(s, sep, i, piece) ==
  IF i > Len(s) THEN <<piece>>
  ELSE IF s[i] = sep THEN <<piece>> \o SplitFrom(s, sep, i + 1, <<>>)
  ELSE SplitFrom(s, sep, i + 1, Append(piece, s[i]))

Split(s, sep) == SplitFrom(s, sep, 1, <<>>)

\* strings.TrimSpace: drop leading and trailing white space.
RECURSIVE TrimLeft(_)
TrimLeft(s) ==
  IF s # <<>> /\ Head(s) = Space THEN TrimLeft(Tail(s)) ELSE s

RECURSIVE TrimRight(_)
TrimRight(s) ==
  IF s # <<>> /\ s[Len(s)] = Space THEN TrimRight(SubSeq(s, 1, Len(s) - 1)) ELSE s

TrimSpace(s) == TrimRight(TrimLeft(s))

\* The Go string a token sequence spells, as a map key.  A one-token sequence
\* is that token; anything longer is a string that is no entity name here.
Str(s) ==
  IF s = <<>> THEN ""
  ELSE IF Len(s) = 1 THEN s[1]
  ELSE "<composite>"

\* head, tail of an edge "HEAD -> TAIL" (src/main.go:108-109).
EdgeHead(edge) == Str(TrimSpace(Split(edge, Arrow)[1]))
EdgeTail(edge) == Str(TrimSpace(Split(edge, Arrow)[2]))

----------------------------------------------------------------------------
\* url.Parse on the identifier forms used: "", "scheme://host",
\* "scheme://host:port", and a string with no scheme before "://", which
\* url.Parse rejects (missing protocol scheme).  Host keeps the port, as
\* url.URL.Host does.
EmptyURL == [Scheme |-> "", Host |-> <<>>, Path |-> <<>>]

UrlParse(s) ==
  IF s = <<>> THEN [ok |-> TRUE, url |-> EmptyURL]
  ELSE IF s[1] \in {"://", ":"} THEN [ok |-> FALSE, url |-> EmptyURL]
  ELSE IF Len(s) >= 3 /\ s[2] = "://"
       THEN IF Len(s) >= 5 /\ s[4] = ":"
            THEN [ok |-> TRUE,
                  url |-> [Scheme |-> s[1], Host |-> SubSeq(s, 3, 5),
                           Path |-> SubSeq(s, 6, Len(s))]]
            ELSE [ok |-> TRUE,
                  url |-> [Scheme |-> s[1], Host |-> <<s[3]>>,
                           Path |-> SubSeq(s, 4, Len(s))]]
  ELSE [ok |-> TRUE, url |-> [Scheme |-> "", Host |-> <<>>, Path |-> s]]

\* (*url.URL).String
UrlString(u) ==
  (IF u.Scheme # "" THEN <<u.Scheme, "://">> ELSE <<>>) \o u.Host \o u.Path

\* (*url.URL).Hostname: Host without the port.
Hostname(u) == IF u.Host = <<>> THEN "" ELSE u.Host[1]

----------------------------------------------------------------------------
\* The configs generated.
Names == {"A", "B", "C"}

Ident(h) == <<"https", "://", h>>
IdentPort(h, p) == <<"https", "://", h, ":", p>>
BadIdent == <<"://", "hc">>

Decl(k, id) == [declared |-> TRUE, Kind |-> k, Identifier |-> id]
Undeclared == [declared |-> FALSE, Kind |-> "", Identifier |-> <<>>]

Options(n) ==
  CASE n = "A" -> {Decl(EntityKindTrustAnchor, Ident("ha")),
                   Decl(EntityKindLeaf, Ident("ha"))}
    [] n = "B" -> {Decl(EntityKindIntermediate, Ident("hb")),
                   Decl(EntityKindIntermediate, IdentPort("ha", "8443"))}
    [] n = "C" -> {Undeclared,
                   Decl(EntityKindLeaf, Ident("hc")),
                   Decl(EntityKindLeaf, BadIdent),
                   Decl(EntityKindLeaf, <<>>),
                   Decl("", Ident("hc"))}

ConfigEntities ==
  { [n \in {m \in Names : f[m].declared} |->
        [Kind |-> f[n].Kind, Identifier |-> f[n].Identifier]] :
    f \in {g \in [Names -> UNION {Options(n) : n \in Names}] :
             \A n \in Names : g[n] \in Options(n)} }

EdgeStr(h, t) == <<h, Space, Arrow, Space, t>>
EdgeStrings == {EdgeStr(h, t) : h \in Names, t \in Names}

ConfigEdges == UNION {[1..n -> EdgeStrings] : n \in 0..MaxEdges}

----------------------------------------------------------------------------
\* The running state as one record, so that the steps are functions of it.
Cur ==
  [pc |-> pc, err |-> err, index |-> index, entityNodes |-> entityNodes,
   keyLog |-> keyLog, mux |-> mux, toVisit |-> toVisit, writes |-> writes]

Set(r) ==
  /\ pc' = r.pc
  /\ err' = r.err
  /\ index' = r.index
  /\ entityNodes' = r.entityNodes
  /\ keyLog' = r.keyLog
  /\ mux' = r.mux
  /\ toVisit' = r.toVisit
  /\ writes' = r.writes

Start ==
  [pc |-> "validate", err |-> "", index |-> 0, entityNodes |-> <<>>,
   keyLog |-> <<>>, mux |-> {}, toVisit |-> {}, writes |-> <<>>]

\* log.Fatal / log.Fatalf / a panic: the process ends.
Fatal(st, msg) == [st EXCEPT !.pc = "aborted", !.err = msg]

NoRequest == [Host |-> "", Port |-> "", Handler |-> ""]

Init ==
  /\ cfgEntities \in ConfigEntities
  /\ cfgEdges \in ConfigEdges
  /\ pc = Start.pc
  /\ err = Start.err
  /\ index = Start.index
  /\ entityNodes = Start.entityNodes
  /\ keyLog = Start.keyLog
  /\ mux = Start.mux
  /\ toVisit = Start.toVisit
  /\ writes = Start.writes
  /\ served = NoRequest

----------------------------------------------------------------------------
\* Config validation (src/main.go:95-102).  The range over the map meets the
\* entities in any order; the first offending one decides the message.
Offending ==
  {k \in DOMAIN cfgEntities :
     cfgEntities[k].Kind = "" \/ cfgEntities[k].Identifier = <<>>}

Validate(st, k) ==
  IF k \notin Offending THEN [st EXCEPT !.pc = "edges"]
  ELSE IF cfgEntities[k].Kind = "" THEN Fatal(st, "kind must be present")
  ELSE Fatal(st, "identifier must be present")

----------------------------------------------------------------------------
\* The edge loop of mustParseConfig (src/main.go:106-152).

\* mustGenerateECDSAPrivateKey: the n-th call returns the n-th fresh key.
\* keyLog records, per call, the name the key was generated for.
PublicJWKS(sk) == [pub |-> sk]

NoFedEntity == [set |-> FALSE, EntityID |-> <<>>, AuthorityHints |-> <<>>, Key |-> 0]
NoStorage == [open |-> FALSE, subordinates |-> {}]

\* config.Entities[name]: a map miss yields the zero value.
EntityConfig(name) ==
  IF name \in DOMAIN cfgEntities THEN cfgEntities[name]
  ELSE [Kind |-> "", Identifier |-> <<>>]

DefinedAlways(name) == TRUE

\* The "ok" of the lookups at src/main.go:111 and 115.
Defined(name) == name \in DOMAIN cfgEntities

CreateEntity(st, name) ==
  LET p == UrlParse(EntityConfig(name).Identifier) IN
  IF ~p.ok THEN Fatal(st, "invalid url")
  ELSE [st EXCEPT
          !.keyLog = Append(@, name),
          !.entityNodes =
             (name :> [Name |-> name,
                       Kind |-> EntityConfig(name).Kind,
                       Identifier |-> p.url,
                       SigningPrivateKey |-> Len(st.keyLog) + 1,
                       Superiors |-> <<>>,
                       Subordinates |-> <<>>,
                       FedEntity |-> NoFedEntity,
                       Storage |-> NoStorage]) @@ @]

GetOrCreateAlways(st, name) == CreateEntity(st, name)

\* entityNodes[name], created on the first reference (src/main.go:120-133
\* for the head, 135-148 for the tail).
GetOrCreate(st, name) ==
  IF name \in DOMAIN st.entityNodes THEN st ELSE CreateEntity(st, name)

LinkSubordinatesOnly(nodes, head, tail) ==
  [nodes EXCEPT ![head].Subordinates = Append(@, tail)]

LinkLatestSuperior(nodes, head, tail) ==
  LET n1 == [nodes EXCEPT ![head].Subordinates = Append(@, tail)] IN
  [n1 EXCEPT ![tail].Superiors = <<head>>]

\* The two appends of src/main.go:150-151, in that order.
Link(nodes, head, tail) ==
  LET n1 == [nodes EXCEPT ![head].Subordinates = Append(@, tail)] IN
  [n1 EXCEPT ![tail].Superiors = Append(@, head)]

\* One iteration of the loop.
ProcessEdge(st, edge) ==
  LET head == EdgeHead(edge)
      tail == EdgeTail(edge)
  IN IF ~Defined(head) THEN Fatal(st, "undefined reference")
     ELSE IF ~Defined(tail) THEN Fatal(st, "undefined reference")
     ELSE LET s1 == GetOrCreate(st, head) IN
          IF s1.pc = "aborted" THEN s1
          ELSE LET s2 == GetOrCreate(s1, tail) IN
               IF s2.pc = "aborted" THEN s2
               ELSE [s2 EXCEPT !.entityNodes = Link(@, head, tail),
                               !.index = @ + 1]

\* The loop is over; mustParseConfig returns and main starts its first range
\* over the map (src/main.go:154-161).
FinishBuild(st) ==
  [st EXCEPT !.pc = "register", !.toVisit = DOMAIN st.entityNodes]

----------------------------------------------------------------------------
\* The first loop of main (src/main.go:161-219), one entity per step.

OwnsStore(kind) == kind \in {EntityKindIntermediate, EntityKindTrustAnchor}

\* src/main.go:163-166
AuthorityHints(nodes, e) ==
  [i \in 1..Len(nodes[e].Superiors) |->
     UrlString(nodes[nodes[e].Superiors[i]].Identifier)]

\* fedentities.NewFedEntity (src/main.go:176-194): the engine keeps the
\* identifier, the hints and the signing key it was given.
NewFedEntity(nodes, e) ==
  [set |-> TRUE,
   EntityID |-> UrlString(nodes[e].Identifier),
   AuthorityHints |-> AuthorityHints(nodes, e),
   Key |-> nodes[e].SigningPrivateKey]

RegisterHostByName(entity) == entity.Name

\* src/main.go:215
RegisterHost(entity) == Hostname(entity.Identifier)

MuxHandleOverwrite(m, host, handler) ==
  [panic |-> FALSE,
   mux |-> {r \in m : r.host # host} \cup {[host |-> host, handler |-> handler]}]

\* mux.HandleFunc(host+"/", handleFunc) (src/main.go:217): http.ServeMux
\* panics when the pattern is already registered.
MuxHandleFunc(m, host, handler) ==
  IF \E r \in m : r.host = host
  THEN [panic |-> TRUE, mux |-> m]
  ELSE [panic |-> FALSE, mux |-> m \cup {[host |-> host, handler |-> handler]}]

Register(st, e) ==
  LET nodes == st.entityNodes
      entity == nodes[e]
      nodes2 == [nodes EXCEPT
                   ![e].FedEntity = NewFedEntity(nodes, e),
                   ![e].Storage = IF OwnsStore(entity.Kind)
                                  THEN [open |-> TRUE, subordinates |-> {}]
                                  ELSE @]
      reg == MuxHandleFunc(st.mux, RegisterHost(entity), e)
  IN IF reg.panic
     THEN Fatal([st EXCEPT !.entityNodes = nodes2], "multiple registrations")
     ELSE [st EXCEPT !.entityNodes = nodes2,
                     !.mux = reg.mux,
                     !.toVisit = @ \ {e}]

RegisterLoopDoneEarly(st) == TRUE

\* The range of src/main.go:161 has visited every entity.
RegisterLoopDone(st) == st.toVisit = {}

\* The second range over the map starts (src/main.go:221).
FinishRegister(st) ==
  [st EXCEPT !.pc = "materialize", !.toVisit = DOMAIN st.entityNodes]

----------------------------------------------------------------------------
\* The second loop of main (src/main.go:221-241), one entity per step: the
\* inner loop over the entity's subordinates runs to its end or to a panic.

\* (*FedEntity).EntityConfigurationPayload: the payload carries the public
\* keys of the signing key the entity was created with.
EntityConfigurationPayload(fed) ==
  [iss |-> fed.EntityID, AuthorityHints |-> fed.AuthorityHints,
   JWKS |-> PublicJWKS(fed.Key)]

SubordinateInfoOfWriter(entity, subordinate) ==
  [JWKS |-> EntityConfigurationPayload(entity.FedEntity).JWKS,
   EntityTypes |-> <<>>,
   EntityID |-> UrlString(subordinate.Identifier),
   Status |-> StatusActive]

\* src/main.go:223-229
SubordinateInfo(entity, subordinate) ==
  [JWKS |-> EntityConfigurationPayload(subordinate.FedEntity).JWKS,
   EntityTypes |-> <<>>,
   EntityID |-> UrlString(subordinate.Identifier),
   Status |-> StatusActive]

\* SubordinateStorage().Write(key, info): one record per key.
StorageWrite(storage, key, info) ==
  [storage EXCEPT !.subordinates =
     {r \in @ : r.key # key} \cup {[key |-> key, info |-> info]}]

RECURSIVE MaterializeFrom(_, _, _)
MaterializeFrom(st, e, i) ==
  LET entity == st.entityNodes[e] IN
  IF i > Len(entity.Subordinates) THEN [st EXCEPT !.toVisit = @ \ {e}]
  ELSE LET c == entity.Subordinates[i]
           subordinate == st.entityNodes[c]
       IN IF ~subordinate.FedEntity.set
          THEN Fatal(st, "nil FedEntity")
          ELSE LET attempted == [st EXCEPT !.writes = Append(@, <<e, c>>)] IN
               IF ~entity.Storage.open
               THEN Fatal(attempted, "nil Storage")
               ELSE MaterializeFrom(
                      [attempted EXCEPT !.entityNodes[e].Storage =
                         StorageWrite(@, UrlString(subordinate.Identifier),
                                      SubordinateInfo(entity, subordinate))],
                      e, i + 1)

Materialize(st, e) == MaterializeFrom(st, e, 1)

\* src/main.go:245-251
Listen(st) == [st EXCEPT !.pc = "listening"]

\* http.ServeMux dispatch for the patterns registered above: the port of the
\* Host header is stripped, a host pattern matches its host, and the pattern
\* "/" (an empty host) matches every host no host pattern matches.
Dispatch(m, host) ==
  IF \E r \in m : r.host = host
  THEN (CHOOSE r \in m : r.host = host).handler
  ELSE IF \E r \in m : r.host = ""
       THEN (CHOOSE r \in m : r.host = "").handler
       ELSE "<404>"

RequestHosts == {"ha", "hb", "hc"}
RequestPorts == {"", "8080"}

----------------------------------------------------------------------------
\* Actions.

ValidateConfig ==
  /\ pc = "validate"
  /\ IF Offending = {}
     THEN Set(Validate(Cur, ""))
     ELSE \E k \in Offending : Set(Validate(Cur, k))
  /\ UNCHANGED <<cfgEntities, cfgEdges, served>>

ParseEdge ==
  /\ pc = "edges"
  /\ index < Len(cfgEdges)
  /\ Set(ProcessEdge(Cur, cfgEdges[index + 1]))
  /\ UNCHANGED <<cfgEntities, cfgEdges, served>>

ReturnEntities ==
  /\ pc = "edges"
  /\ index = Len(cfgEdges)
  /\ Set(FinishBuild(Cur))
  /\ UNCHANGED <<cfgEntities, cfgEdges, served>>

RegisterEntity ==
  /\ pc = "register"
  /\ \E e \in toVisit : Set(Register(Cur, e))
  /\ UNCHANGED <<cfgEntities, cfgEdges, served>>

StartMaterialize ==
  /\ pc = "register"
  /\ RegisterLoopDone(Cur)
  /\ Set(FinishRegister(Cur))
  /\ UNCHANGED <<cfgEntities, cfgEdges, served>>

MaterializeEntity ==
  /\ pc = "materialize"
  /\ \E e \in toVisit : Set(Materialize(Cur, e))
  /\ UNCHANGED <<cfgEntities, cfgEdges, served>>

ListenAndServe ==
  /\ pc = "materialize"
  /\ toVisit = {}
  /\ Set(Listen(Cur))
  /\ UNCHANGED <<cfgEntities, cfgEdges, served>>

Serve ==
  /\ pc = "listening"
  /\ \E h \in RequestHosts, p \in RequestPorts :
        served' = [Host |-> h, Port |-> p, Handler |-> Dispatch(mux, h)]
  /\ UNCHANGED <<cfgEntities, cfgEdges, pc, err, index, entityNodes, keyLog,
                 mux, toVisit, writes>>

Next ==
  \/ ValidateConfig
  \/ ParseEdge
  \/ ReturnEntities
  \/ RegisterEntity
  \/ StartMaterialize
  \/ MaterializeEntity
  \/ ListenAndServe
  \/ Serve

Spec == Init /\ [][Next]_vars

----------------------------------------------------------------------------
\* The states one step of main can lead to from st, over every entity the
\* ranges over the maps (src/main.go:95, 161, 221) can meet next: the steps
\* the actions take.
Successors(st, edges) ==
  IF st.pc = "validate"
  THEN IF Offending = {}
       THEN {Validate(st, "")}
       ELSE {Validate(st, k) : k \in Offending}
  ELSE IF st.pc = "edges"
  THEN IF st.index < Len(edges)
       THEN {ProcessEdge(st, edges[st.index + 1])}
       ELSE {FinishBuild(st)}
  ELSE IF st.pc = "register"
  THEN (IF RegisterLoopDone(st) THEN {FinishRegister(st)} ELSE {})
       \cup {Register(st, e) : e \in st.toVisit}
  ELSE IF st.pc = "materialize"
  THEN (IF st.toVisit = {} THEN {Listen(st)} ELSE {})
       \cup {Materialize(st, e) : e \in st.toVisit}
  ELSE {st}

\* main on an edge list (src/main.go:158-252): the states in which the
\* process can listen or end, over every order of the map ranges.
RECURSIVE RunFrom(_, _)
RunFrom(S, edges) ==
  IF \A st \in S : st.pc \in {"aborted", "listening"} THEN S
  ELSE RunFrom(UNION {Successors(st, edges) : st \in S}, edges)

Startup(edges) == RunFrom({Start}, edges)

----------------------------------------------------------------------------
\* Vocabulary of the properties.

Count(x, seq) == Cardinality({i \in 1..Len(seq) : seq[i] = x})

NoDuplicates(seq) == \A i, j \in 1..Len(seq) : seq[i] = seq[j] => i = j

SameBag(s, t) ==
  /\ Len(s) = Len(t)
  /\ \A i \in 1..Len(s) : Count(s[i], s) = Count(s[i], t)

\* The names the first k edges mention.
EdgeNames(edges, k) ==
  UNION {{EdgeHead(edges[i]), EdgeTail(edges[i])} : i \in 1..k}

\* The permutations of 1..n, for every length of an edge list.
PermsOfLength ==
  [n \in 0..MaxEdges |->
     {p \in [1..n -> 1..n] : \A i, j \in 1..n : p[i] = p[j] => i = j}]

Perms(n) == PermsOfLength[n]

Permute(edges, p) == [i \in 1..Len(edges) |-> edges[p[i]]]

\* Two nodes whose identifiers have the same hostname.
HostnameCollision ==
  \E a, b \in DOMAIN entityNodes :
     /\ a # b
     /\ Hostname(entityNodes[a].Identifier) = Hostname(entityNodes[b].Identifier)

\* The state startup produces: the process listens and has served nothing.
StartupOver == pc = "listening" /\ served = NoRequest

MaterializationFinished ==
  \/ pc = "listening"
  \/ pc = "materialize" /\ toVisit = {}

\* A trust store with each key set named by the nodes that own the keypair,
\* so that stores of two runs (whose keys are fresh) can be compared.
StoreView(nodes, n) ==
  [open |-> nodes[n].Storage.open,
   records |->
     {[key |-> r.key, EntityID |-> r.info.EntityID, Status |-> r.info.Status,
       EntityTypes |-> r.info.EntityTypes,
       keysOf |-> {m \in DOMAIN nodes :
                     PublicJWKS(nodes[m].SigningPrivateKey) = r.info.JWKS}] :
      r \in nodes[n].Storage.subordinates}]

PhaseRank(p) ==
  CASE p = "validate" -> 0
    [] p = "edges" -> 1
    [] p = "register" -> 2
    [] p = "materialize" -> 3
    [] p = "listening" -> 4
    [] OTHER -> 5

----------------------------------------------------------------------------
\* C1: after every processed edge and in the final graph, B occurs in
\* A.Subordinates exactly as often as A occurs in B.Superiors, self-edges and
\* cycles included, and both lists hold only nodes of the map.
C1_GraphSymmetry ==
  \A a \in DOMAIN entityNodes :
    /\ \A i \in 1..Len(entityNodes[a].Subordinates) :
          entityNodes[a].Subordinates[i] \in DOMAIN entityNodes
    /\ \A i \in 1..Len(entityNodes[a].Superiors) :
          entityNodes[a].Superiors[i] \in DOMAIN entityNodes
    /\ \A b \in DOMAIN entityNodes :
          Count(b, entityNodes[a].Subordinates) = Count(a, entityNodes[b].Superiors)

\* A finished graph with a self-edge and a two-node cycle.
C1_Witness ==
  /\ pc = "register"
  /\ index = 3
  /\ \E a, b \in DOMAIN entityNodes :
        /\ a # b
        /\ Count(a, entityNodes[a].Subordinates) = 1
        /\ Count(b, entityNodes[a].Subordinates) = 1
        /\ Count(a, entityNodes[b].Subordinates) = 1

\* C2: once materialization has finished, every declared edge (P, C) whose
\* head is an intermediate or a trust anchor has exactly one record in P's
\* store under C's identifier, with C's identifier as entity ID, status
\* active, and the public keys of C's keypair and of no other node's.
C2_TrustCompleteness ==
  MaterializationFinished =>
    \A i \in 1..Len(cfgEdges) :
      LET P == EdgeHead(cfgEdges[i])
          C == EdgeTail(cfgEdges[i])
          id == UrlString(UrlParse(cfgEntities[C].Identifier).url)
          recs == {r \in entityNodes[P].Storage.subordinates : r.key = id}
      IN OwnsStore(cfgEntities[P].Kind) =>
           /\ Cardinality(recs) = 1
           /\ \A r \in recs :
                 /\ r.info.EntityID = id
                 /\ r.info.Status = StatusActive
                 /\ r.info.JWKS = PublicJWKS(entityNodes[C].SigningPrivateKey)
                 /\ \A n \in DOMAIN entityNodes \ {C} :
                       r.info.JWKS # PublicJWKS(entityNodes[n].SigningPrivateKey)

\* The process listens and a superior holds records for two subordinates.
C2_Witness ==
  /\ pc = "listening"
  /\ \E p \in DOMAIN entityNodes :
        /\ p \notin {entityNodes[p].Subordinates[i] :
                       i \in 1..Len(entityNodes[p].Subordinates)}
        /\ Cardinality(entityNodes[p].Storage.subordinates) = 2

\* C3: the node map holds exactly the names the processed edges mention (all
\* the edges' names once the loop is over, never more nodes than entities),
\* and one key was generated per node: no name occurs twice in the log of
\* key generations, and every node still holds the key generated for it.
C3_OneNodeOneKeyPerName ==
  /\ NoDuplicates(keyLog)
  /\ Len(keyLog) = Cardinality(DOMAIN entityNodes)
  /\ \A n \in DOMAIN entityNodes :
        /\ entityNodes[n].Name = n
        /\ entityNodes[n].SigningPrivateKey \in 1..Len(keyLog)
        /\ keyLog[entityNodes[n].SigningPrivateKey] = n
  /\ pc = "edges" => DOMAIN entityNodes = EdgeNames(cfgEdges, index)
  /\ pc \in {"register", "materialize", "listening"} =>
        /\ DOMAIN entityNodes = EdgeNames(cfgEdges, Len(cfgEdges))
        /\ DOMAIN entityNodes \subseteq DOMAIN cfgEntities
        /\ Cardinality(DOMAIN entityNodes) <= Cardinality(DOMAIN cfgEntities)

\* Three edges over two of three declared entities: each of the two names is
\* referenced again after its node exists, the third has no node.
C3_Witness ==
  /\ pc = "register"
  /\ index = 3
  /\ Cardinality(DOMAIN cfgEntities) = 3
  /\ Cardinality(DOMAIN entityNodes) = 2

\* C4: while listening, a request for the hostname of entity E's identifier,
\* with or without a port in the Host header, is dispatched to E's handler
\* and to no other.
C4_HostRouting ==
  pc = "listening" =>
    /\ \A e \in DOMAIN entityNodes :
          Dispatch(mux, Hostname(entityNodes[e].Identifier)) = e
    /\ served # NoRequest =>
          \A e \in DOMAIN entityNodes :
             served.Host = Hostname(entityNodes[e].Identifier) =>
                served.Handler = e

\* A request with a port in its Host header reached the handler of an entity
\* whose identifier has another port.
C4_Witness ==
  /\ pc = "listening"
  /\ served.Port = "8080"
  /\ served.Handler \in DOMAIN entityNodes
  /\ Len(entityNodes[served.Handler].Identifier.Host) = 3
  /\ served.Host = Hostname(entityNodes[served.Handler].Identifier)

\* C5: when some edge names a head or a tail that is no key of the entities
\* mapping, the process never leaves the edge loop alive: it never listens,
\* no handler is created or registered and no trust store is written.
C5_FatalOnUndefinedReference ==
  (\E i \in 1..Len(cfgEdges) :
      \/ EdgeHead(cfgEdges[i]) \notin DOMAIN cfgEntities
      \/ EdgeTail(cfgEdges[i]) \notin DOMAIN cfgEntities)
  => /\ pc \in {"validate", "edges", "aborted"}
     /\ mux = {}
     /\ writes = <<>>
     /\ \A n \in DOMAIN entityNodes :
           /\ ~entityNodes[n].FedEntity.set
           /\ entityNodes[n].Storage = NoStorage

\* The loop ended the process at an undefined name after it had processed
\* edges and created nodes.
C5_Witness ==
  /\ pc = "aborted"
  /\ err = "undefined reference"
  /\ index >= 1
  /\ DOMAIN entityNodes # {}

\* C6: every write attempted has a store-owning node as its target, the
\* second loop never ends in a nil dereference of a missing store, and once
\* it is over the writes attempted are the edges whose head owns a store.
C6_WritesOnlyIntoOwnedStores ==
  /\ \A i \in 1..Len(writes) : OwnsStore(entityNodes[writes[i][1]].Kind)
  /\ err # "nil Storage"
  /\ MaterializationFinished =>
        {writes[i] : i \in 1..Len(writes)} =
          {<<EdgeHead(cfgEdges[i]), EdgeTail(cfgEdges[i])>> :
             i \in {j \in 1..Len(cfgEdges) :
                      OwnsStore(cfgEntities[EdgeHead(cfgEdges[j])].Kind)}}

\* C7 as stated: two nodes with the same hostname are both registered
\* without an error.
C7_CollisionIsAccepted ==
  ~(pc = "aborted" /\ err = "multiple registrations")

\* C7 amended: when two nodes have identifiers with the same hostname, the
\* second registration is refused and ends the process, so no trust store is
\* written and the process never listens; a pattern never changes handler.
C7_CollisionAborts ==
  /\ HostnameCollision =>
        /\ pc \in {"edges", "register", "aborted"}
        /\ writes = <<>>
  /\ err = "multiple registrations" => HostnameCollision /\ pc = "aborted"
  /\ \A r1, r2 \in mux : r1.host = r2.host => r1.handler = r2.handler
  /\ \A r \in mux : r.host = Hostname(entityNodes[r.handler].Identifier)

\* The second of two identifiers that differ only in the port was refused.
C7_Witness ==
  /\ pc = "aborted"
  /\ err = "multiple registrations"
  /\ \E a, b \in DOMAIN entityNodes :
        /\ a # b
        /\ Hostname(entityNodes[a].Identifier) = Hostname(entityNodes[b].Identifier)
        /\ entityNodes[a].Identifier.Host # entityNodes[b].Identifier.Host
        /\ \E r \in mux : r.handler = a

\* C8 as stated: every run on every permutation of the edges gives the same
\* nodes, the same Superiors and Subordinates lists, the same authority-hint
\* lists and the same trust stores.
C8_EdgeOrderAffectsNothing ==
  StartupOver =>
    \A p \in Perms(Len(cfgEdges)) :
      \A o \in Startup(Permute(cfgEdges, p)) :
      /\ o.pc = "listening"
      /\ DOMAIN o.entityNodes = DOMAIN entityNodes
      /\ \A n \in DOMAIN entityNodes :
            /\ o.entityNodes[n].Superiors = entityNodes[n].Superiors
            /\ o.entityNodes[n].Subordinates = entityNodes[n].Subordinates
            /\ o.entityNodes[n].FedEntity.AuthorityHints =
                  entityNodes[n].FedEntity.AuthorityHints
            /\ StoreView(o.entityNodes, n) = StoreView(entityNodes, n)

\* C8 amended: when startup reaches listening for an edge list, every run
\* on every permutation of it reaches listening, with the same nodes, the same
\* Superiors, Subordinates and authority hints up to their order in the
\* lists, and the same trust stores.
C8_EdgeOrderPermutesLists ==
  StartupOver =>
    \A p \in Perms(Len(cfgEdges)) :
      \A o \in Startup(Permute(cfgEdges, p)) :
      /\ o.pc = "listening"
      /\ DOMAIN o.entityNodes = DOMAIN entityNodes
      /\ \A n \in DOMAIN entityNodes :
            /\ SameBag(o.entityNodes[n].Superiors, entityNodes[n].Superiors)
            /\ SameBag(o.entityNodes[n].Subordinates,
                       entityNodes[n].Subordinates)
            /\ SameBag(o.entityNodes[n].FedEntity.AuthorityHints,
                       entityNodes[n].FedEntity.AuthorityHints)
            /\ StoreView(o.entityNodes, n) = StoreView(entityNodes, n)

\* The process listens with a node that has two different superiors.
C8_Witness ==
  /\ pc = "listening"
  /\ \E n \in DOMAIN entityNodes :
        /\ Len(entityNodes[n].FedEntity.AuthorityHints) = 2
        /\ NoDuplicates(entityNodes[n].FedEntity.AuthorityHints)
  /\ \E n \in DOMAIN entityNodes :
        entityNodes[n].Storage.subordinates # {}

\* C9: no node occurs twice in a Superiors or Subordinates list, no
\* authority hint is listed twice, and no (superior, subordinate) record is
\* written twice.
C9_ListsAreSets ==
  /\ \A n \in DOMAIN entityNodes :
        /\ NoDuplicates(entityNodes[n].Superiors)
        /\ NoDuplicates(entityNodes[n].Subordinates)
        /\ NoDuplicates(entityNodes[n].FedEntity.AuthorityHints)
  /\ NoDuplicates(writes)

\* C10: the phases follow one another and never go back; the graph changes
\* only in the edge loop, which runs to the last edge; handlers and patterns
\* change only in the first loop of main, which leaves no node without a
\* handler; stores are written only in the second loop, which never meets a
\* subordinate without a handler; nothing is written once listening.
C10_PhasesOrdered ==
  [][
    /\ PhaseRank(pc') >= PhaseRank(pc)
    /\ pc = "edges" /\ pc' = "register" => index = Len(cfgEdges)
    /\ (\/ DOMAIN entityNodes' # DOMAIN entityNodes
        \/ \E n \in DOMAIN entityNodes :
              \/ entityNodes'[n].Superiors # entityNodes[n].Superiors
              \/ entityNodes'[n].Subordinates # entityNodes[n].Subordinates
              \/ entityNodes'[n].SigningPrivateKey # entityNodes[n].SigningPrivateKey)
       => pc = "edges"
    /\ (\/ mux' # mux
        \/ \E n \in DOMAIN entityNodes :
              entityNodes'[n].FedEntity # entityNodes[n].FedEntity)
       => pc = "register"
    /\ pc' = "materialize" =>
          \A n \in DOMAIN entityNodes' : entityNodes'[n].FedEntity.set
    /\ (\/ writes' # writes
        \/ \E n \in DOMAIN entityNodes :
              entityNodes'[n].Storage.subordinates #
                entityNodes[n].Storage.subordinates)
       => /\ pc = "materialize"
          /\ pc' # "listening"
          /\ \A n \in DOMAIN entityNodes : entityNodes[n].FedEntity.set
    /\ err' # "nil FedEntity"
    /\ pc = "listening" => pc' = "listening"
  ]_vars

\* The process serves a request after two records were written.
C10_Witness ==
  /\ pc = "listening"
  /\ served # NoRequest
  /\ Len(writes) >= 2
  /\ \E n \in DOMAIN entityNodes :
        Cardinality(entityNodes[n].Storage.subordinates) >= 1

====
